---- MODULE Spec2Model ----
(***************************************************************************)
(* A model of the facial-identification harness: AlphaPrototype            *)
(* (src/alpha_prototype.py) and ExperimentRunner                           *)
(* (src/experiment_runner.py).                                             *)
(*                                                                         *)
(* Python strings that the program formats or compares (person ids,        *)
(* embedding keys, display names) are sequences of one-character strings.  *)
(* Image paths and file names are only ever passed around, so they are     *)
(* atomic strings.  Python floats are fixed-point integers, Scale units    *)
(* to 1.0, wrapped as Float(n); float('inf') is Inf.  Python None is None. *)
(* A dict is the sequence of its <<key, value>> pairs in insertion order.  *)
(***************************************************************************)
EXTENDS Integers, Sequences, FiniteSets, TLC

VARIABLES
    \* the program's AlphaPrototype variable: <<>> while unbound, else <<object>>
    prototype,
    \* the last AlphaPrototype(...) call: its arguments and whether it raised
    last_construct,
    \* the last prototype.identify(...) call: the object before and after,
    \* the arguments, the keys the scan visited and the result
    last_identify,
    \* the program's ExperimentRunner variable: <<>> while unbound
    runner,
    \* the last runner.run(...) call: the runner before and after, the
    \* arguments, and what the call printed, wrote and returned
    last_run,
    \* the number of run calls made
    n_runs

vars == <<prototype, last_construct, last_identify, runner, last_run, n_runs>>

(***************************************************************************)
(* Bounds of the model.                                                    *)
(***************************************************************************)
\* fixed-point units per 1.0 of a Python float
Scale == 10
\* characters of a drawn person id
MaxIdLen == 3
\* images a drawn manifest lists for one person
MaxImages == 2
\* run() calls made on one ExperimentRunner
MaxRuns == 2

(***************************************************************************)
(* Python values.                                                          *)
(***************************************************************************)
None == <<"None">>
Inf == <<"inf">>
Float(n) == <<"float", n>>
\* an opaque Python string, such as the message of an exception
Str(s) == <<"str", s>>

\* x < y on floats (alpha_prototype.py:87), x and y finite or inf
FloatLt(x, y) ==
    IF x = Inf THEN FALSE
    ELSE IF y = Inf THEN TRUE
    ELSE x[2] < y[2]

\* x > y on floats (alpha_prototype.py:92)
FloatGt(x, y) == FloatLt(y, x)

UnknownName == <<"U", "n", "k", "n", "o", "w", "n">>
NoMatchName == <<"N", "o", " ", "m", "a", "t", "c", "h">>
ErrorName == <<"E", "r", "r", "o", "r">>

(***************************************************************************)
(* dict: the sequence of <<key, value>> pairs in insertion order.          *)
(***************************************************************************)
DictHas(d, k) == \E i \in 1..Len(d) : d[i][1] = k

\* d.get(k, default)
DictGet(d, k, default) ==
    IF DictHas(d, k)
    THEN d[CHOOSE i \in 1..Len(d) : d[i][1] = k][2]
    ELSE default

\* d[k] = v: an existing key keeps its position, a new key is appended
DictSet(d, k, v) ==
    IF DictHas(d, k)
    THEN [i \in 1..Len(d) |-> IF d[i][1] = k THEN <<k, v>> ELSE d[i]]
    ELSE Append(d, <<k, v>>)

(***************************************************************************)
(* The environment: the files on disk and the embedding provider.          *)
(***************************************************************************)
PersonA == <<"a">>
PersonB == <<"b">>
PersonA1 == <<"a", "_", "1">>

ModelNames == {"VGG-Face", "Facenet"}
MetricNames == {"cosine", "euclidean", "manhattan"}

\* the face in each image file, as the 2-dimensional embedding VGG-Face gives;
\* "bad.jpg" is a missing file or an image without a face
FaceFiles ==
    [f \in {"a0.jpg", "a1.jpg", "a2.jpg", "b0.jpg", "b1.jpg"} |->
        CASE f = "a0.jpg" -> <<1, 0>>
          [] f = "a1.jpg" -> <<1, 1>>
          [] f = "a2.jpg" -> <<2, 0>>
          [] f = "b0.jpg" -> <<0, 1>>
          [] f = "b1.jpg" -> <<-1, 0>>]

ImagePaths == DOMAIN FaceFiles \cup {"bad.jpg"}

\* DeepFace.represent(img_path, model_name): raises on a file it cannot
\* embed, else returns the embedding of the face under the chosen model
\* (the second model has its features in the other order)
Represent(img_path, model_name) ==
    IF img_path \notin DOMAIN FaceFiles
    THEN [ok |-> FALSE, exc |-> Str("Face could not be detected")]
    ELSE [ok |-> TRUE,
          embedding |-> IF model_name = "VGG-Face"
                        THEN FaceFiles[img_path]
                        ELSE <<FaceFiles[img_path][2], FaceFiles[img_path][1]>>]

\* the template manifests on disk: person id -> image paths, in file order
TemplateFiles ==
    [p \in {"empty.json", "one.json", "two.json", "rev.json", "multi.json",
            "broken.json"} |->
        CASE p = "empty.json" -> <<>>
          [] p = "one.json" -> << <<PersonA, <<"a0.jpg">>>> >>
          [] p = "two.json" -> << <<PersonA, <<"a0.jpg">>>>,
                                  <<PersonB, <<"b0.jpg">>>> >>
          [] p = "rev.json" -> << <<PersonB, <<"b0.jpg">>>>,
                                  <<PersonA, <<"a0.jpg">>>> >>
          [] p = "multi.json" -> << <<PersonA, <<"a0.jpg", "a2.jpg">>>>,
                                    <<PersonA1, <<"b0.jpg">>>> >>
          [] p = "broken.json" -> << <<PersonA, <<"a0.jpg">>>>,
                                     <<PersonB, <<"bad.jpg", "b0.jpg">>>> >>]

\* the probe manifests on disk
ProbeFiles ==
    [p \in {"noprobes.json", "probes.json", "mixed.json", "allbad.json"} |->
        CASE p = "noprobes.json" -> <<>>
          [] p = "probes.json" -> << <<PersonA, <<"a1.jpg">>>>,
                                     <<PersonB, <<"b1.jpg">>>> >>
          [] p = "mixed.json" -> << <<PersonA, <<"bad.jpg", "a0.jpg">>>> >>
          [] p = "allbad.json" -> << <<PersonA, <<"bad.jpg">>>>,
                                     <<PersonB, <<"bad.jpg">>>> >>]

\* the thresholds callers pass: none, 0.0, 0.3 and 1.5
Thresholds ==
    {None, Float(0), Float((3 * Scale) \div 10), Float((15 * Scale) \div 10)}

(***************************************************************************)
(* Distance functions (alpha_prototype.py:106-114), in fixed point.        *)
(***************************************************************************)
Dot(a, b) == a[1] * b[1] + a[2] * b[2]

Sub(a, b) == <<a[1] - b[1], a[2] - b[2]>>

\* floor of the square root
ISqrt(n) == CHOOSE r \in 0..n : r * r <= n /\ (r + 1) * (r + 1) > n

\* np.linalg.norm(a), in Scale units
Norm(a) == ISqrt(Dot(a, a) * Scale * Scale)

\* 1 - np.dot(a, b) / (np.linalg.norm(a) * np.linalg.norm(b))
CosineDistance(embedding1, embedding2) ==
    Float(Scale - ((Dot(embedding1, embedding2) * Scale * Scale * Scale)
                     \div (Norm(embedding1) * Norm(embedding2))))

\* np.linalg.norm(a - b)
EuclideanDistance(embedding1, embedding2) ==
    Float(Norm(Sub(embedding1, embedding2)))

(***************************************************************************)
(* AlphaPrototype._load_templates and __init__.                            *)
(***************************************************************************)
DigitChars == <<"0", "1", "2", "3", "4", "5", "6", "7", "8", "9">>

RECURSIVE Digits(_)
\* str(i) of a non-negative integer
Digits(i) ==
    IF i < 10 THEN <<DigitChars[i + 1]>>
    ELSE Digits(i \div 10) \o <<DigitChars[(i % 10) + 1]>>

\* the key without the index: the images of one person share a key
EmbeddingKeyPersonOnly(person_id, i) == person_id

\* f"{person_id}_{i}"
EmbeddingKey(person_id, i) == person_id \o <<"_">> \o Digits(i)

RECURSIVE LoadImagesSkipping(_, _, _, _)
\* the inner loop with a provider failure skipped instead of propagated
LoadImagesSkipping(st, person_id, image_paths, k) ==
    IF k > Len(image_paths) THEN st
    ELSE IF ~Represent(image_paths[k], st.self.model_name).ok
    THEN LoadImagesSkipping(st, person_id, image_paths, k + 1)
    ELSE LoadImagesSkipping(
           [st EXCEPT !.self.template_embeddings =
               DictSet(@, EmbeddingKey(person_id, k - 1),
                       [embedding |->
                            Represent(image_paths[k],
                                      st.self.model_name).embedding,
                        person_id |-> person_id,
                        image_path |-> image_paths[k]])],
           person_id, image_paths, k + 1)

RECURSIVE LoadImages(_, _, _, _)
\* the inner loop over enumerate(image_paths), from position k (1-based);
\* st.raised is set when DeepFace.represent raises, which ends the load
LoadImages(st, person_id, image_paths, k) ==
    IF st.raised \/ k > Len(image_paths) THEN st
    ELSE LET rep == Represent(image_paths[k], st.self.model_name)
         IN IF ~rep.ok
            THEN [st EXCEPT !.raised = TRUE, !.exc = rep.exc]
            ELSE LoadImages(
                   [st EXCEPT !.self.template_embeddings =
                       DictSet(@, EmbeddingKey(person_id, k - 1),
                               [embedding |-> rep.embedding,
                                person_id |-> person_id,
                                image_path |-> image_paths[k]])],
                   person_id, image_paths, k + 1)

RECURSIVE LoadPersons(_, _, _)
\* the outer loop over template_data.items(), from position k
LoadPersons(st, template_data, k) ==
    IF st.raised \/ k > Len(template_data) THEN st
    ELSE LET person_id == template_data[k][1]
             image_paths == template_data[k][2]
             named == [st EXCEPT
                         !.self.names = DictSet(@, person_id, person_id),
                         !.self.template_db =
                             DictSet(@, person_id, image_paths)]
         IN LoadPersons(LoadImages(named, person_id, image_paths, 1),
                        template_data, k + 1)

\* _load_templates(self): [self, raised, exc]
LoadTemplates(self) ==
    LoadPersons([self |-> self, raised |-> FALSE, exc |-> None],
                TemplateFiles[self.templatedb_path], 1)

\* AlphaPrototype(templatedb_path, model_name, distance_metric): the fields
\* __init__ sets, then the load; when raised, the caller gets no object
NewAlphaPrototype(templatedb_path, model_name, distance_metric) ==
    LoadTemplates([templatedb_path |-> templatedb_path,
                   model_name |-> model_name,
                   distance_metric |-> distance_metric,
                   template_db |-> <<>>,
                   template_embeddings |-> <<>>,
                   names |-> <<>>])

(***************************************************************************)
(* AlphaPrototype.identify.                                                *)
(***************************************************************************)
\* the metric dispatch of the scan (lines 80-85): the distance, or the
\* ValueError for a metric that is neither cosine nor euclidean
Distance(distance_metric, query_embedding, template_embedding) ==
    IF distance_metric = "cosine"
    THEN [ok |-> TRUE,
          distance |-> CosineDistance(query_embedding, template_embedding)]
    ELSE IF distance_metric = "euclidean"
    THEN [ok |-> TRUE,
          distance |-> EuclideanDistance(query_embedding, template_embedding)]
    ELSE [ok |-> FALSE, exc |-> Str("Unsupported distance metric")]

\* the running minimum with <= in place of <: a later tie replaces the best
CloserOrEqual(distance, best_distance) == ~FloatLt(best_distance, distance)

\* if distance < best_distance (line 87)
Closer(distance, best_distance) == FloatLt(distance, best_distance)

RECURSIVE Scan(_, _, _, _)
\* the loop over self.template_embeddings.items() (lines 77-89), from
\* position k; st.visited lists the keys of the entries the loop has taken
Scan(st, self, query_embedding, k) ==
    IF st.raised \/ k > Len(self.template_embeddings) THEN st
    ELSE LET template == self.template_embeddings[k][2]
             seen == [st EXCEPT
                        !.visited = Append(@, self.template_embeddings[k][1])]
             d == Distance(self.distance_metric, query_embedding,
                           template.embedding)
         IN IF ~d.ok
            THEN [seen EXCEPT !.raised = TRUE, !.exc = d.exc]
            ELSE Scan(IF Closer(d.distance, st.best_distance)
                      THEN [seen EXCEPT !.best_distance = d.distance,
                                        !.best_match = template.person_id]
                      ELSE seen,
                      self, query_embedding, k + 1)

\* the gate with >= in place of >: a distance equal to the threshold rejects
MatchAcceptedStrict(best_distance, threshold) ==
    ~(threshold # None /\ ~FloatLt(best_distance, threshold))

\* the gate with the None test inverted: it rejects when no threshold is given
MatchAcceptedNoneRejects(best_distance, threshold) ==
    ~(threshold = None \/ FloatGt(best_distance, threshold))

\* the acceptance gate (lines 91-93)
MatchAccepted(best_distance, threshold) ==
    ~(threshold # None /\ FloatGt(best_distance, threshold))

\* the result of a call that failed (line 104)
ErrorResult ==
    [person_id |-> None, name |-> ErrorName, distance |-> None,
     match_accepted |-> FALSE]

\* the Match Result with the nearest person kept when the match is rejected
MatchResultKeepsNearest(self, st, threshold) ==
    [person_id |-> st.best_match,
     name |-> IF MatchAccepted(st.best_distance, threshold)
              THEN DictGet(self.names, st.best_match, UnknownName)
              ELSE NoMatchName,
     distance |-> st.best_distance,
     match_accepted |-> MatchAccepted(st.best_distance, threshold)]

\* the Match Result built after the scan st (lines 91-100)
MatchResult(self, st, threshold) ==
    [person_id |-> IF MatchAccepted(st.best_distance, threshold)
                   THEN st.best_match
                   ELSE None,
     name |-> IF MatchAccepted(st.best_distance, threshold)
              THEN DictGet(self.names, st.best_match, UnknownName)
              ELSE NoMatchName,
     distance |-> st.best_distance,
     match_accepted |-> MatchAccepted(st.best_distance, threshold)]

\* what the try block gives once the scan st has ended
AfterScan(self, st, threshold) ==
    IF st.raised
    THEN [raised |-> TRUE, exc |-> st.exc, value |-> None,
          visited |-> st.visited]
    ELSE [raised |-> FALSE, exc |-> None,
          value |-> MatchResult(self, st, threshold),
          visited |-> st.visited]

\* the scan of the whole store, from best_match = None and
\* best_distance = float('inf') (lines 74-89)
ScanStore(self, query_embedding) ==
    Scan([raised |-> FALSE, exc |-> None, best_match |-> None,
          best_distance |-> Inf, visited |-> <<>>],
         self, query_embedding, 1)

\* what the try block gives for the provider's answer rep (lines 68-100)
AfterRepresent(self, rep, threshold) ==
    IF ~rep.ok
    THEN [raised |-> TRUE, exc |-> rep.exc, value |-> None, visited |-> <<>>]
    ELSE AfterScan(self, ScanStore(self, rep.embedding), threshold)

\* the try block of identify (lines 66-100): [raised, exc, value, visited]
IdentifyTry(self, query_image_path, threshold) ==
    AfterRepresent(self, Represent(query_image_path, self.model_name),
                   threshold)

\* a call whose try block gave t and that has no except clause
Propagate(self, t) ==
    [raised |-> t.raised, exc |-> t.exc, value |-> t.value,
     visited |-> t.visited, self |-> self]

\* the except Exception clause (lines 102-104) on the outcome t of the try
\* block: a failure becomes ErrorResult, nothing is raised.  self is the
\* object after the call; identify assigns to none of its fields
ExceptClause(self, t) ==
    [raised |-> FALSE, exc |-> None,
     value |-> IF t.raised THEN ErrorResult ELSE t.value,
     visited |-> t.visited,
     self |-> self]

\* identify without its except clause: a failure of the try block propagates
IdentifyPropagates(self, query_image_path, threshold) ==
    Propagate(self, IdentifyTry(self, query_image_path, threshold))

\* identify that also keeps the query embedding in the store
IdentifyCachesQuery(self, query_image_path, threshold) ==
    [ExceptClause(self, IdentifyTry(self, query_image_path, threshold))
       EXCEPT !.self =
         IF Represent(query_image_path, self.model_name).ok
         THEN [self EXCEPT !.template_embeddings =
                 DictSet(@, <<"q">>,
                         [embedding |->
                              Represent(query_image_path,
                                        self.model_name).embedding,
                          person_id |-> None,
                          image_path |-> query_image_path])]
         ELSE self]

\* identify(self, query_image_path, threshold)
Identify(self, query_image_path, threshold) ==
    ExceptClause(self, IdentifyTry(self, query_image_path, threshold))

(***************************************************************************)
(* The program using one AlphaPrototype variable: it constructs a matcher  *)
(* and queries it.                                                         *)
(***************************************************************************)
\* prototype = AlphaPrototype(templatedb_path, model_name, distance_metric),
\* once: when the constructor raises, the variable stays unbound
Construct(templatedb_path, model_name, distance_metric) ==
    LET c == NewAlphaPrototype(templatedb_path, model_name, distance_metric)
    IN /\ prototype = <<>>
       /\ prototype' = IF c.raised THEN prototype ELSE <<c.self>>
       /\ last_construct' = <<[templatedb_path |-> templatedb_path,
                               model_name |-> model_name,
                               distance_metric |-> distance_metric,
                               raised |-> c.raised,
                               exc |-> c.exc]>>
       /\ UNCHANGED <<last_identify, runner, last_run, n_runs>>

\* result = prototype.identify(query_image_path, threshold)
IdentifyCall(query_image_path, threshold) ==
    /\ prototype # <<>>
    /\ LET r == Identify(prototype[1], query_image_path, threshold)
       IN /\ prototype' = <<r.self>>
          /\ last_identify' = <<[self |-> prototype[1],
                                 query_image_path |-> query_image_path,
                                 threshold |-> threshold,
                                 raised |-> r.raised,
                                 result |-> r.value,
                                 visited |-> r.visited,
                                 self_after |-> r.self]>>
    /\ UNCHANGED <<last_construct, runner, last_run, n_runs>>

Init ==
    /\ prototype = <<>>
    /\ last_construct = <<>>
    /\ last_identify = <<>>
    /\ runner = <<>>
    /\ last_run = <<>>
    /\ n_runs = 0

Next ==
    \/ \E p \in DOMAIN TemplateFiles, m \in ModelNames, d \in MetricNames :
          Construct(p, m, d)
    \/ \E q \in ImagePaths, t \in Thresholds : IdentifyCall(q, t)

Spec == Init /\ [][Next]_vars


(***************************************************************************)
(* ExperimentRunner (src/experiment_runner.py).                            *)
(***************************************************************************)
\* ExperimentRunner(templatedb_path, probes_path): the fields __init__ sets
NewExperimentRunner(templatedb_path, probes_path) ==
    [templatedb_path |-> templatedb_path,
     probes_path |-> probes_path,
     probe_data |-> ProbeFiles[probes_path],
     results |-> <<>>]

\* the row run appends for one probe (lines 51-70): the try branch for a
\* call that returned, the except branch for a call that raised
EvaluationRecord(img_path, true_person_id, r) ==
    IF ~r.raised
    THEN [probe_image |-> img_path,
          true_person_id |-> true_person_id,
          predicted_person_id |-> r.value.person_id,
          distance |-> r.value.distance,
          match_accepted |-> r.value.match_accepted,
          error |-> None]
    ELSE [probe_image |-> img_path,
          true_person_id |-> true_person_id,
          predicted_person_id |-> None,
          distance |-> None,
          match_accepted |-> FALSE,
          error |-> r.exc]

\* the loop state [results, prototype] after the probe whose call gave r
AfterProbe(st, img_path, true_person_id, r) ==
    [results |-> Append(st.results,
                        EvaluationRecord(img_path, true_person_id, r)),
     prototype |-> r.self]

RECURSIVE RunImages(_, _, _, _, _)
\* the inner loop of run over image_paths, from position k;
\* st is [results, prototype]
RunImages(st, true_person_id, image_paths, k, threshold) ==
    IF k > Len(image_paths) THEN st
    ELSE RunImages(AfterProbe(st, image_paths[k], true_person_id,
                              Identify(st.prototype, image_paths[k],
                                       threshold)),
                   true_person_id, image_paths, k + 1, threshold)

RECURSIVE RunPersons(_, _, _, _)
\* the outer loop of run over self.probe_data.items(), from position k
RunPersons(st, probe_data, k, threshold) ==
    IF k > Len(probe_data) THEN st
    ELSE RunPersons(RunImages(st, probe_data[k][1], probe_data[k][2], 1,
                              threshold),
                    probe_data, k + 1, threshold)

\* a boolean pandas Series is the sequence of its values
\* a & b
SeriesAnd(a, b) == [i \in DOMAIN a |-> a[i] /\ b[i]]

\* ~a
SeriesNot(a) == [i \in DOMAIN a |-> ~a[i]]

\* a.sum(): the number of true values
SeriesSum(a) == Cardinality({i \in DOMAIN a : a[i]})

\* num / den * 100, kept as a fraction
Percent(num, den) == [num |-> 100 * num, den |-> den]

\* the literal 0 of the else branch of the precision (line 93)
ZeroPercent == [num |-> 0, den |-> 1]

\* precision (line 93)
Precision(correct, accepted) ==
    IF SeriesSum(accepted) > 0
    THEN Percent(SeriesSum(SeriesAnd(correct, accepted)), SeriesSum(accepted))
    ELSE ZeroPercent

\* _calculate_metrics(self, results_df), up to the confusion matrix (lines
\* 87-112).  pd.DataFrame([]) has no columns, so on an empty table the
\* column access of line 89 raises KeyError.  The per-individual breakdown
\* that follows (lines 114-124) is printed from the same non-empty table.
CalculateMetrics(results_df) ==
    LET total == Len(results_df)
        correct == [i \in 1..total |->
                      results_df[i].true_person_id =
                        results_df[i].predicted_person_id]
        accepted == [i \in 1..total |-> results_df[i].match_accepted = TRUE]
    IN IF total = 0
       THEN [raised |-> TRUE, exc |-> Str("KeyError: 'true_person_id'")]
       ELSE [raised |-> FALSE,
             exc |-> None,
             total |-> total,
             accuracy |-> Percent(SeriesSum(correct), total),
             precision |-> Precision(correct, accepted),
             rejection_rate |-> Percent(SeriesSum(SeriesNot(accepted)), total),
             true_positives |-> SeriesSum(SeriesAnd(correct, accepted)),
             false_positives |->
                 SeriesSum(SeriesAnd(SeriesNot(correct), accepted)),
             true_negatives |->
                 SeriesSum(SeriesAnd(SeriesNot(correct), SeriesNot(accepted))),
             false_negatives |->
                 SeriesSum(SeriesAnd(correct, SeriesNot(accepted)))]

\* f"results_{model_name}_{distance_metric}.csv"
ResultsPath(model_name, distance_metric) ==
    <<"results_", model_name, "_", distance_metric, ".csv">>

\* the end of run (lines 78-83) once the metrics call has ended: the table
\* written with to_csv and returned, unless that call raised
RunReport(after, metrics, model_name, distance_metric) ==
    IF metrics.raised
    THEN [self |-> after, raised |-> TRUE, exc |-> metrics.exc,
          stage |-> "metrics", metrics |-> None, written |-> None,
          returned |-> None]
    ELSE [self |-> after, raised |-> FALSE, exc |-> None,
          stage |-> "done", metrics |-> metrics,
          written |-> [path |-> ResultsPath(model_name, distance_metric),
                       rows |-> after.results],
          returned |-> after.results]

\* results_df = pd.DataFrame(self.results) and what follows (lines 76-83)
RunFinish(after, model_name, distance_metric) ==
    RunReport(after, CalculateMetrics(after.results), model_name,
              distance_metric)

\* the runner after the loop over the probes (lines 48-74), which appends
\* to self.results
AfterProbes(self, matcher, threshold) ==
    [self EXCEPT !.results =
        RunPersons([results |-> self.results, prototype |-> matcher],
                   self.probe_data, 1, threshold).results]

\* run from the outcome c of the constructor call of line 43
RunWith(self, c, model_name, distance_metric, threshold) ==
    IF c.raised
    THEN [self |-> self, raised |-> TRUE, exc |-> c.exc,
          stage |-> "construct", metrics |-> None, written |-> None,
          returned |-> None]
    ELSE RunFinish(AfterProbes(self, c.self, threshold), model_name,
                   distance_metric)

\* run(self, model_name, distance_metric, threshold): self after the call,
\* whether the call raised and at which stage, the printed metrics, the
\* table written with to_csv and the table returned
RunCall(self, model_name, distance_metric, threshold) ==
    RunWith(self,
            NewAlphaPrototype(self.templatedb_path, model_name,
                              distance_metric),
            model_name, distance_metric, threshold)

(***************************************************************************)
(* The program using one ExperimentRunner variable.                        *)
(***************************************************************************)
\* runner = ExperimentRunner(templatedb_path, probes_path)
NewRunner(templatedb_path, probes_path) ==
    /\ runner = <<>>
    /\ runner' = <<NewExperimentRunner(templatedb_path, probes_path)>>
    /\ UNCHANGED <<prototype, last_construct, last_identify, last_run,
                   n_runs>>

\* results = runner.run(model_name, distance_metric, threshold)
Run(model_name, distance_metric, threshold) ==
    /\ runner # <<>>
    /\ n_runs < MaxRuns
    /\ LET r == RunCall(runner[1], model_name, distance_metric, threshold)
       IN /\ runner' = <<r.self>>
          /\ last_run' = <<[self |-> runner[1],
                            model_name |-> model_name,
                            distance_metric |-> distance_metric,
                            threshold |-> threshold,
                            raised |-> r.raised,
                            exc |-> r.exc,
                            stage |-> r.stage,
                            metrics |-> r.metrics,
                            written |-> r.written,
                            returned |-> r.returned,
                            self_after |-> r.self]>>
    /\ n_runs' = n_runs + 1
    /\ UNCHANGED <<prototype, last_construct, last_identify>>

NextRunner ==
    \/ \E p \in DOMAIN TemplateFiles, q \in DOMAIN ProbeFiles : NewRunner(p, q)
    \/ \E m \in ModelNames, d \in MetricNames, t \in Thresholds : Run(m, d, t)

RunnerSpec == Init /\ [][NextRunner]_vars

(***************************************************************************)
(* Properties of identify, stated over the last call made.                 *)
(***************************************************************************)
\* the identify calls on record
IdentifyCalls == {last_identify[i] : i \in 1..Len(last_identify)}

SupportedMetrics == {"cosine", "euclidean"}

\* the call obtained its query embedding
QueryEmbedded(c) == Represent(c.query_image_path, c.self.model_name).ok

StoreSize(c) == Len(c.self.template_embeddings)

\* the distance from the call's query to the i-th template entry
EntryDistance(c, i) ==
    Distance(c.self.distance_metric,
             Represent(c.query_image_path, c.self.model_name).embedding,
             c.self.template_embeddings[i][2].embedding).distance

\* the minimum distance over all template entries of a non-empty store
MinDistance(c) ==
    CHOOSE d \in {EntryDistance(c, i) : i \in 1..StoreSize(c)} :
        \A j \in 1..StoreSize(c) : ~FloatLt(EntryDistance(c, j), d)

\* the first entry, in insertion order, at the minimum distance
FirstNearest(c) ==
    CHOOSE i \in 1..StoreSize(c) :
        /\ EntryDistance(c, i) = MinDistance(c)
        /\ \A j \in 1..(i - 1) : EntryDistance(c, j) # MinDistance(c)

\* the call scans a non-empty store with a distance the code defines
Scanned(c) ==
    /\ QueryEmbedded(c)
    /\ StoreSize(c) > 0
    /\ c.self.distance_metric \in SupportedMetrics

\* C1: identify never propagates a failure to its caller; when the query
\* embedding cannot be obtained it returns the Match Result with person_id
\* none, name "Error", distance absent and match_accepted false, and the
\* store is as it was before the call.
C1_IdentifyFailsSoft ==
    \A c \in IdentifyCalls :
        /\ ~c.raised
        /\ ~QueryEmbedded(c) =>
              /\ c.result = [person_id |-> None, name |-> ErrorName,
                             distance |-> None, match_accepted |-> FALSE]
              /\ c.self_after = c.self

\* a call on a non-empty store whose query embedding could not be obtained
C1_Witness ==
    \E c \in IdentifyCalls :
        ~QueryEmbedded(c) /\ StoreSize(c) > 0 /\ c.result.name = ErrorName

\* C2: on a non-empty store with the query embedded and a threshold given,
\* a minimum distance above the threshold gives match_accepted false,
\* person_id none, name "No match" and the minimum distance as distance; a
\* minimum distance at or below the threshold gives an accepted match with
\* the id of a person at the minimum distance.
C2_ThresholdGate ==
    \A c \in IdentifyCalls :
        (Scanned(c) /\ c.threshold # None) =>
            IF FloatGt(MinDistance(c), c.threshold)
            THEN c.result = [person_id |-> None, name |-> NoMatchName,
                             distance |-> MinDistance(c),
                             match_accepted |-> FALSE]
            ELSE /\ c.result.match_accepted
                 /\ c.result.distance = MinDistance(c)
                 /\ \E i \in 1..StoreSize(c) :
                       /\ EntryDistance(c, i) = MinDistance(c)
                       /\ c.result.person_id =
                            c.self.template_embeddings[i][2].person_id

\* threshold 0.0 and a nearest template at a distance above 0: rejected
C2_Witness ==
    \E c \in IdentifyCalls :
        /\ Scanned(c)
        /\ c.threshold = Float(0)
        /\ FloatGt(MinDistance(c), Float(0))
        /\ ~c.result.match_accepted
        /\ c.result.distance = MinDistance(c)

\* C3: identify on an empty store does not raise and returns person_id
\* none, distance absent and a match that is not accepted.
C3_EmptyStoreNoMatch ==
    \A c \in IdentifyCalls :
        StoreSize(c) = 0 =>
            /\ ~c.raised
            /\ c.result.person_id = None
            /\ c.result.distance = None
            /\ ~c.result.match_accepted

\* C4: a metric name other than cosine and euclidean is rejected when the
\* AlphaPrototype is constructed: no matcher with such a metric exists, and
\* no identify call on one returns a Match Result.
C4_MetricRejectedAtConstruction ==
    /\ \A i \in 1..Len(prototype) :
          prototype[i].distance_metric \in SupportedMetrics
    /\ \A c \in IdentifyCalls : c.self.distance_metric \in SupportedMetrics

\* C8 as stated: without a threshold, match_accepted is true for every
\* store and every query.
C8_AlwaysAcceptedWithoutThreshold ==
    \A c \in IdentifyCalls : c.threshold = None => c.result.match_accepted

\* C8, amended: without a threshold, match_accepted is true exactly when the
\* try block completes, which is when the query embedding is obtained and
\* the scan meets no template under an unsupported metric; otherwise the
\* call returns the "Error" result, whose match_accepted is false.
C8_AcceptedUnlessError ==
    \A c \in IdentifyCalls :
        c.threshold = None =>
            IF /\ QueryEmbedded(c)
               /\ (StoreSize(c) = 0
                     \/ c.self.distance_metric \in SupportedMetrics)
            THEN c.result.match_accepted /\ c.result.name # ErrorName
            ELSE c.result = ErrorResult

\* no threshold, and a nearest template at a distance of 1.0 or more: accepted
C8_Witness ==
    \E c \in IdentifyCalls :
        /\ Scanned(c)
        /\ c.threshold = None
        /\ ~FloatLt(MinDistance(c), Float(Scale))
        /\ c.result.match_accepted
        /\ c.result.person_id # None

\* C9: on a non-empty store identify visits every template entry once, in
\* insertion order, reports the minimum distance, and the person of an
\* accepted match is the person of the first entry at the minimum distance.
C9_FirstNearestWins ==
    \A c \in IdentifyCalls :
        Scanned(c) =>
            /\ c.visited = [i \in 1..StoreSize(c) |->
                              c.self.template_embeddings[i][1]]
            /\ c.result.distance = MinDistance(c)
            /\ c.result.match_accepted =>
                  c.result.person_id =
                    c.self.template_embeddings[FirstNearest(c)][2].person_id

\* two entries of different persons tie at the minimum distance, and the
\* accepted match is the earlier one
C9_Witness ==
    \E c \in IdentifyCalls :
        /\ Scanned(c)
        /\ c.result.match_accepted
        /\ \E i, j \in 1..StoreSize(c) :
              /\ i < j
              /\ EntryDistance(c, i) = MinDistance(c)
              /\ EntryDistance(c, j) = MinDistance(c)
              /\ c.self.template_embeddings[i][2].person_id #
                   c.self.template_embeddings[j][2].person_id
              /\ c.result.person_id =
                   c.self.template_embeddings[i][2].person_id

(***************************************************************************)
(* Properties of run, stated over the last call made.                      *)
(***************************************************************************)
\* the run calls on record
RunCalls == {last_run[i] : i \in 1..Len(last_run)}

RECURSIVE FlatProbes(_, _)
\* the probes of a probe set from person k on, as <<true person id, path>>,
\* person by person, each person's images in listed order
FlatProbes(probe_data, k) ==
    IF k > Len(probe_data) THEN <<>>
    ELSE [i \in 1..Len(probe_data[k][2]) |->
            <<probe_data[k][1], probe_data[k][2][i]>>]
         \o FlatProbes(probe_data, k + 1)

\* C5: every Evaluation Record of a probe for which the embedding provider
\* failed carries a non-empty error field, with predicted_person_id and
\* distance null; when the provider fails for every probe the accuracy is 0.
C5_FailedProbesCarryError ==
    \A r \in RunCalls :
        ~r.raised =>
            /\ \A i \in 1..Len(r.returned) :
                  ~Represent(r.returned[i].probe_image, r.model_name).ok =>
                      /\ r.returned[i].error # None
                      /\ r.returned[i].predicted_person_id = None
                      /\ r.returned[i].distance = None
            /\ (\A i \in 1..Len(r.returned) :
                   ~Represent(r.returned[i].probe_image, r.model_name).ok)
                  => r.metrics.accuracy.num = 0

\* C6: whatever the probe set and whichever probes fail, a run that has
\* its matcher completes without raising, with the metrics computed and the
\* results artifact written.
C6_RunCompletes ==
    \A r \in RunCalls :
        r.stage # "construct" => (~r.raised /\ r.stage = "done")

\* C7: the table a run returns and persists holds one Evaluation Record per
\* probe image of the probe set, in probe-set order, and nothing else.
C7_TableIsThisRun ==
    \A r \in RunCalls :
        ~r.raised =>
            /\ Len(r.returned) = Len(FlatProbes(r.self.probe_data, 1))
            /\ \A i \in 1..Len(r.returned) :
                  i <= Len(FlatProbes(r.self.probe_data, 1)) =>
                      /\ r.returned[i].true_person_id =
                           FlatProbes(r.self.probe_data, 1)[i][1]
                      /\ r.returned[i].probe_image =
                           FlatProbes(r.self.probe_data, 1)[i][2]
            /\ r.written.rows = r.returned

\* the rows of the table of run r that are accepted
AcceptedRows(r) ==
    {i \in 1..Len(r.self_after.results) :
        r.self_after.results[i].match_accepted}

\* the accepted rows whose predicted person is the true person
AcceptedCorrectRows(r) ==
    {i \in AcceptedRows(r) :
        r.self_after.results[i].predicted_person_id =
          r.self_after.results[i].true_person_id}

\* the precision of the table of run r is the fraction of accepted rows
\* that are correct, and exactly 0 when no row is accepted
PrecisionAsDefined(r) ==
    IF AcceptedRows(r) = {}
    THEN r.metrics.precision.num = 0 /\ r.metrics.precision.den # 0
    ELSE /\ r.metrics.precision.den # 0
         /\ r.metrics.precision.num * Cardinality(AcceptedRows(r)) =
              100 * Cardinality(AcceptedCorrectRows(r))
                * r.metrics.precision.den

\* C10: for every table _calculate_metrics is called with, the precision is
\* the fraction of accepted records whose predicted person id is the true
\* one, and is exactly 0, without an exception, when no record is accepted.
C10_PrecisionDefined ==
    \A r \in RunCalls :
        r.stage # "construct" => (~r.raised /\ PrecisionAsDefined(r))

\* the same on the tables that have at least one row
PrecisionOnNonEmptyTables ==
    \A r \in RunCalls :
        (r.stage # "construct" /\ Len(r.self_after.results) > 0) =>
            (~r.raised /\ PrecisionAsDefined(r))

(***************************************************************************)
(* Properties of Template Store construction.                              *)
(***************************************************************************)
\* the constructor calls on record
ConstructCalls == {last_construct[i] : i \in 1..Len(last_construct)}

\* the images a manifest lists, as <<position of the person, position of
\* the image in the person's list>>
ListedImages(template_data) ==
    UNION {{<<k, i>> : i \in 1..Len(template_data[k][2])} :
             k \in 1..Len(template_data)}

\* the provider fails for some image the manifest lists
SomeTemplateFails(template_data, model_name) ==
    \E ki \in ListedImages(template_data) :
        ~Represent(template_data[ki[1]][2][ki[2]], model_name).ok

\* the store of object obj holds an entry for every image of every person
\* of the manifest it was built from
StoreComplete(obj) ==
    \A ki \in ListedImages(TemplateFiles[obj.templatedb_path]) :
        LET person_id == TemplateFiles[obj.templatedb_path][ki[1]][1]
            img_path == TemplateFiles[obj.templatedb_path][ki[1]][2][ki[2]]
        IN /\ Represent(img_path, obj.model_name).ok
           /\ \E j \in 1..Len(obj.template_embeddings) :
                 /\ obj.template_embeddings[j][1] =
                      person_id \o <<"_">> \o Digits(ki[2] - 1)
                 /\ obj.template_embeddings[j][2].person_id = person_id
                 /\ obj.template_embeddings[j][2].image_path = img_path
                 /\ obj.template_embeddings[j][2].embedding =
                      Represent(img_path, obj.model_name).embedding

\* C11: construction is all-or-nothing: the constructor raises exactly when
\* the provider fails for a listed template image, the caller then has no
\* matcher object, and every object identify runs against holds an entry
\* for every image of every person of its manifest.
C11_ConstructionAllOrNothing ==
    /\ \A c \in ConstructCalls :
          /\ c.raised <=> SomeTemplateFails(TemplateFiles[c.templatedb_path],
                                            c.model_name)
          /\ c.raised => prototype = <<>>
    /\ \A i \in 1..Len(prototype) : StoreComplete(prototype[i])
    /\ \A c \in IdentifyCalls : StoreComplete(c.self)

\* a constructor call on a manifest with an image the provider cannot
\* embed, listed after one it can: the call raised and no object is bound
C11_Witness ==
    \E c \in ConstructCalls :
        /\ c.raised
        /\ c.templatedb_path = "broken.json"
        /\ SomeTemplateFails(TemplateFiles[c.templatedb_path], c.model_name)
        /\ prototype = <<>>

(***************************************************************************)
(* Key generation, on manifests drawn from bounded sets.                   *)
(***************************************************************************)
\* the characters of the drawn person ids: an underscore and a digit, the
\* characters the key format itself uses
IdChars == {"_", "1"}

\* the person ids drawn: the non-empty strings over IdChars up to MaxIdLen
DrawnPersonIds == UNION {[1..len -> IdChars] : len \in 1..MaxIdLen}

\* the image lists drawn: up to MaxImages images the provider can embed
DrawnImageLists == {[i \in 1..n |-> "a0.jpg"] : n \in 0..MaxImages}

\* a person of a drawn manifest: <<person id, image paths>>
DrawnPersons == DrawnPersonIds \X DrawnImageLists

\* the manifests drawn: no person, one person, or two persons with
\* different ids (a key collision involves two keys, so two persons at most)
DrawnManifests ==
    {<<>>}
      \cup {<<x>> : x \in DrawnPersons}
      \cup {m \in {<<x, y>> : x \in DrawnPersons, y \in DrawnPersons} :
              m[1][1] # m[2][1]}

\* prototype = AlphaPrototype("drawn.json"), with the default model and
\* metric, on a manifest file whose content is template_data
ConstructOnManifest(template_data) ==
    LET c == LoadPersons([self |-> [templatedb_path |-> "drawn.json",
                                    model_name |-> "VGG-Face",
                                    distance_metric |-> "cosine",
                                    template_db |-> <<>>,
                                    template_embeddings |-> <<>>,
                                    names |-> <<>>],
                          raised |-> FALSE, exc |-> None],
                         template_data, 1)
    IN /\ prototype = <<>>
       /\ prototype' = IF c.raised THEN prototype ELSE <<c.self>>
       /\ last_construct' = <<[templatedb_path |-> "drawn.json",
                               template_data |-> template_data,
                               model_name |-> "VGG-Face",
                               distance_metric |-> "cosine",
                               raised |-> c.raised,
                               exc |-> c.exc]>>
       /\ UNCHANGED <<last_identify, runner, last_run, n_runs>>

NextKeys == \E template_data \in DrawnManifests :
                ConstructOnManifest(template_data)

KeySpec == Init /\ [][NextKeys]_vars

RECURSIVE ListedInOrder(_, _)
\* the images a manifest lists from person k on, as
\* <<person id, index, path>>, in manifest order
ListedInOrder(template_data, k) ==
    IF k > Len(template_data) THEN <<>>
    ELSE [i \in 1..Len(template_data[k][2]) |->
            <<template_data[k][1], i - 1, template_data[k][2][i]>>]
         \o ListedInOrder(template_data, k + 1)

\* C12: for a manifest with unique person ids, ids with underscores and
\* digits included, the generated keys are pairwise distinct and the store
\* holds one entry per listed image, in manifest order: its size is the sum
\* of the list lengths and no entry has overwritten another.
C12_KeysDistinct ==
    \A c \in ConstructCalls :
        /\ ~c.raised
        /\ Len(prototype) = 1
        /\ LET store == prototype[1].template_embeddings
               listed == ListedInOrder(c.template_data, 1)
           IN /\ Len(store) = Len(listed)
              /\ \A i, j \in 1..Len(store) :
                    i # j => store[i][1] # store[j][1]
              /\ \A i \in 1..Len(store) :
                    i <= Len(listed) =>
                        /\ store[i][2].person_id = listed[i][1]
                        /\ store[i][2].image_path = listed[i][3]

\* the persons "1" and "1_1", two images each: the key of the second image
\* of "1" is the id of the other person, and the store holds four entries
C12_Witness ==
    \E c \in ConstructCalls :
        /\ Len(c.template_data) = 2
        /\ c.template_data[1][1] = <<"1">>
        /\ c.template_data[2][1] = <<"1", "_", "1">>
        /\ Len(c.template_data[1][2]) = 2
        /\ Len(c.template_data[2][2]) = 2
        /\ Len(prototype) = 1
        /\ Len(prototype[1].template_embeddings) = 4
        /\ prototype[1].template_embeddings[2][1] = <<"1", "_", "1">>

(***************************************************************************)
(* The store after construction, and the rejected records of a run.        *)
(***************************************************************************)
\* the object as the constructor call that built obj left it
AsConstructed(obj) ==
    NewAlphaPrototype(obj.templatedb_path, obj.model_name,
                      obj.distance_metric).self

\* C13: identify leaves template_embeddings, template_db and names as they
\* were, whatever it returns; so after any number of calls the store is the
\* store as constructed, and each call returns what it would return as the
\* only call on that store.
C13_StoreReadOnly ==
    \A c \in IdentifyCalls :
        /\ c.self_after.template_embeddings = c.self.template_embeddings
        /\ c.self_after.template_db = c.self.template_db
        /\ c.self_after.names = c.self.names
        /\ c.self = AsConstructed(c.self)
        /\ prototype = <<AsConstructed(c.self)>>
        /\ c.result = Identify(AsConstructed(c.self), c.query_image_path,
                               c.threshold).value

\* a call on a non-empty store that rejected its nearest template, with the
\* store still as constructed
C13_Witness ==
    \E c \in IdentifyCalls :
        /\ StoreSize(c) > 0
        /\ c.result.name = NoMatchName
        /\ prototype = <<AsConstructed(c.self)>>

\* C14: in every table run produces, a record that is not accepted has no
\* predicted person and is not correct; so the false-negative count is 0,
\* the accuracy is true positives over total, and the four quadrant counts
\* add up to the number of records.
C14_RejectedNeverCorrect ==
    \A r \in RunCalls :
        ~r.raised =>
            /\ \A i \in 1..Len(r.returned) :
                  ~r.returned[i].match_accepted =>
                      /\ r.returned[i].predicted_person_id = None
                      /\ r.returned[i].predicted_person_id #
                           r.returned[i].true_person_id
            /\ r.metrics.false_negatives = 0
            /\ r.metrics.accuracy.num = 100 * r.metrics.true_positives
            /\ r.metrics.accuracy.den = Len(r.returned)
            /\ r.metrics.true_positives + r.metrics.false_positives
                 + r.metrics.true_negatives + r.metrics.false_negatives
                 = Len(r.returned)

\* a table with a record rejected by the threshold at a finite distance,
\* beside an accepted correct one
C14_Witness ==
    \E r \in RunCalls :
        /\ ~r.raised
        /\ \E i \in 1..Len(r.returned) :
              /\ ~r.returned[i].match_accepted
              /\ r.returned[i].distance # None
              /\ r.returned[i].distance # Inf
        /\ r.metrics.true_negatives > 0
        /\ r.metrics.true_positives > 0

====
